---- MODULE Spec2Model ----
(***************************************************************************)
(* A model of the 2-of-3 multisig PSBT toolkit: the coordinator builds an  *)
(* unsigned PSBT, each signer adds its partial signature, the finalizer    *)
(* builds the witness stacks and extracts the transaction.                 *)
(*                                                                         *)
(* Option<T> is a sequence: <<>> is None and <<x>> is Some(x).  A BTreeMap *)
(* is the set of its entries (records), at most one entry per key.  A      *)
(* secp256k1 public key is a number standing for its 33 serialised bytes:  *)
(* the order of the numbers is the byte order of the serialisations.       *)
(***************************************************************************)
EXTENDS Integers, Sequences, FiniteSets, TLC

VARIABLES file, origin, run, key_files, multisig_wallet, amounts

vars == <<file, origin, run, key_files, multisig_wallet, amounts>>

None == <<>>

Some(x) == <<x>>

(***************************************************************************)
(* Bounds of the model.                                                    *)
(***************************************************************************)
\* the largest number of inputs of a PSBT handed to the signer or finalizer
MaxInputs == 2

\* the largest number of key files handed to from_key_files
MaxKeyFiles == 4

(***************************************************************************)
(* Keys.                                                                   *)
(***************************************************************************)
\* the cosigners' extended keys, in the order keygen makes them; a fourth
\* extended key, "s", is a stranger's
Cosigners == <<"a", "b", "c">>

\* the master fingerprint of each key, as Fingerprint's Display prints it
MasterFingerprint(x) ==
    CASE x = "a" -> "aa11bb22"
      [] x = "b" -> "bb22cc33"
      [] x = "c" -> "cc33dd44"
      [] OTHER   -> "dd44ee55"

\* Fingerprint::from_str: hex of either case to the four bytes
FingerprintFromStr(s) ==
    CASE s = "AA11BB22" -> "aa11bb22"
      [] s = "BB22CC33" -> "bb22cc33"
      [] s = "CC33DD44" -> "cc33dd44"
      [] OTHER          -> s

\* Fingerprint's to_string: lower-case hex
FingerprintToString(fp) == fp

\* the base path m/48'/1'/0'/2' every key record carries
BasePath == <<"48'", "1'", "0'", "2'">>

\* format!("{}", index) of a u32 address index
IndexToString(index) == IF index = 0 THEN "0" ELSE "1"

\* the child public key of extended key x at one non-hardened step: the same
\* key whether derived from the xpub (derive_pub) or from the xprv
\* (derive_priv, then PublicKey::from_secret_key)
ChildPub(x, child) ==
    CASE x = "a" /\ child = "0" -> 20
      [] x = "b" /\ child = "0" -> 10
      [] x = "c" /\ child = "0" -> 30
      [] x = "s" /\ child = "0" -> 5
      [] x = "a" /\ child = "1" -> 15
      [] x = "b" /\ child = "1" -> 25
      [] x = "c" /\ child = "1" -> 6
      [] x = "s" /\ child = "1" -> 35
      [] x = "t" /\ child = "0" -> 40
      [] x = "t" /\ child = "1" -> 50
      [] OTHER                  -> 45

\* a key record (KeyData) as the signer reads it from its key file
KeyData(name, xprv, fingerprint) ==
    [name |-> name, xprv |-> xprv, xpub |-> xprv, fingerprint |-> fingerprint,
     derivation_path |-> BasePath]

\* the key files keygen writes
KeygenFiles ==
    { KeyData("key_" \o x, x, FingerprintToString(MasterFingerprint(x))) :
        x \in {"a", "b", "c"} }

\* the key files a signer may be started with: the cosigners', a stranger's,
\* cosigner a's with its fingerprint in upper-case hex, and a record whose
\* fingerprint is a's while its xprv is the stranger's
KeyFiles ==
    KeygenFiles \cup
    { KeyData("key_s", "s", MasterFingerprint("s")),
      KeyData("key_a", "a", "AA11BB22"),
      KeyData("key_x", "s", MasterFingerprint("a")) }

NoKey == KeyData("", "", "")

\* the key files from_key_files may be handed: those above and the record of
\* a second account of the stranger's seed, with the same master fingerprint
\* and another extended key
WalletKeyFiles == KeyFiles \cup { KeyData("key_t", "t", MasterFingerprint("t")) }

\* the lists of key files from_key_files may be handed: any number of files up
\* to the bound, with pairwise different extended public keys
KeyFileLists ==
    UNION { { l \in [1..n -> WalletKeyFiles] :
                \A i, j \in 1..n : i # j => l[i].xpub # l[j].xpub } :
            n \in 0..MaxKeyFiles }

(***************************************************************************)
(* Maps and sequences.                                                     *)
(***************************************************************************)
Keys(m) == { e.pk : e \in m }

\* mutant of MapInsert: the map is rebuilt from the new entry alone
MapInsertAlone(m, pk, sig) == { [pk |-> pk, sig |-> sig] }

\* BTreeMap::insert: the entry under pk is replaced
MapInsert(m, pk, sig) ==
    { e \in m : e.pk # pk } \cup { [pk |-> pk, sig |-> sig] }

\* the derived Ord of bitcoin::PublicKey {compressed, inner}
PkLess(p, q) ==
    \/ ~p.compressed /\ q.compressed
    \/ p.compressed = q.compressed /\ p.inner < q.inner

\* the entries of a partial_sigs map in the order its iterator yields them
RECURSIVE MapIter(_)
MapIter(m) ==
    IF m = {} THEN <<>>
    ELSE LET first == CHOOSE e \in m : \A o \in m \ {e} : PkLess(e.pk, o.pk)
         IN  <<first>> \o MapIter(m \ {first})

\* insert e into the sorted sequence s after every entry whose key is not greater
RECURSIVE InsertSorted(_, _)
InsertSorted(s, e) ==
    IF s = <<>> THEN <<e>>
    ELSE IF e.pk.inner < s[1].pk.inner THEN <<e>> \o s
    ELSE <<s[1]>> \o InsertSorted(Tail(s), e)

\* mutant of SortBySerializedKey: the sort is left out
NoSort(s) == s

\* sort_by on a.0.inner.serialize(): a stable sort by the key's 33 bytes
RECURSIVE SortBySerializedKey(_)
SortBySerializedKey(s) ==
    IF s = <<>> THEN <<>>
    ELSE InsertSorted(SortBySerializedKey(SubSeq(s, 1, Len(s) - 1)), s[Len(s)])

\* mutant of Take: the last n are taken
TakeLast(s, n) == SubSeq(s, IF Len(s) < n THEN 1 ELSE Len(s) - n + 1, Len(s))

\* Iterator::take(n)
Take(s, n) == SubSeq(s, 1, IF Len(s) < n THEN Len(s) ELSE n)

\* the numbers of a set in ascending order
RECURSIVE Ascending(_)
Ascending(S) ==
    IF S = {} THEN <<>>
    ELSE LET least == CHOOSE x \in S : \A y \in S : x <= y
         IN  <<least>> \o Ascending(S \ {least})

(***************************************************************************)
(* The wallet (lib.rs).                                                    *)
(***************************************************************************)
\* the number of key files from_key_files accepts
RequiredKeyFiles == 3

\* the threshold from_key_files sets
WalletThreshold == 2

\* one XpubOrigin from one key record
XpubOrigin(data) ==
    [xpub |-> data.xpub,
     fingerprint |-> FingerprintFromStr(data.fingerprint),
     derivation_path |-> data.derivation_path]

\* mutant of FromKeyFiles: only too few key files are refused
FromKeyFilesAtLeast(key_paths) ==
    IF Len(key_paths) < RequiredKeyFiles THEN None
    ELSE Some([threshold |-> WalletThreshold,
               xpub_origins |-> [i \in 1..Len(key_paths) |-> XpubOrigin(key_paths[i])],
               descriptor |-> [k |-> WalletThreshold,
                               xpubs |-> [i \in 1..Len(key_paths) |-> key_paths[i].xpub]]])

\* MultisigWallet::from_key_files: Some(wallet), or None for the Err
FromKeyFiles(key_paths) ==
    IF Len(key_paths) # RequiredKeyFiles THEN None
    ELSE Some([threshold |-> WalletThreshold,
               xpub_origins |-> [i \in 1..Len(key_paths) |-> XpubOrigin(key_paths[i])],
               descriptor |-> [k |-> WalletThreshold,
                               xpubs |-> [i \in 1..Len(key_paths) |-> key_paths[i].xpub]]])

\* MultisigWallet::derive_child_pubkey
DeriveChildPubkey(origin_, index) == ChildPub(origin_.xpub, IndexToString(index))

\* mutant of WitnessScript: the keys stand in the order of the key files
WitnessScriptRegistrationOrder(wallet, index) ==
    LET xs == wallet.descriptor.xpubs
    IN  [k |-> wallet.descriptor.k,
         keys |-> [i \in 1..Len(xs) |-> ChildPub(xs[i], IndexToString(index))],
         n |-> Len(xs)]

\* MultisigWallet::witness_script: the inner script of wsh(sortedmulti(2, ..))
\* at the index, OP_2 <keys in ascending order> OP_3 OP_CHECKMULTISIG
WitnessScript(wallet, index) ==
    LET xs == wallet.descriptor.xpubs
    IN  [k |-> wallet.descriptor.k,
         keys |-> Ascending({ ChildPub(xs[i], IndexToString(index)) : i \in 1..Len(xs) }),
         n |-> Len(xs)]

\* the P2WSH script_pubkey of a witness script
ScriptPubkey(witness_script) == [p2wsh |-> witness_script]

\* MultisigWallet::derive_address
DeriveAddress(wallet, index) == ScriptPubkey(WitnessScript(wallet, index))

(***************************************************************************)
(* PSBTs.                                                                  *)
(***************************************************************************)
\* Psbt::from_unsigned_tx: one input map per transaction input, all empty
EmptyInput ==
    [witness_utxo |-> None, witness_script |-> None, bip32_derivation |-> {},
     partial_sigs |-> {}, final_script_witness |-> None]

PsbtFromUnsignedTx(tx) ==
    [unsigned_tx |-> tx, inputs |-> [i \in 1..Len(tx.input) |-> EmptyInput]]

\* psbt.serialize() and Psbt::deserialize: the binary encoding of the maps
PsbtSerialize(psbt) == [magic |-> "psbt", maps |-> psbt]

PsbtDeserialize(bytes) == bytes.maps

\* STANDARD.encode and STANDARD.decode
Base64Encode(bytes) == [base64 |-> bytes]

Base64Decode(text) == text.base64

\* the PSBT a tool loads from the file or argument it is given
LoadPsbt(content) == PsbtDeserialize(Base64Decode(content))

(***************************************************************************)
(* The coordinator (bin/coordinator.rs).                                   *)
(***************************************************************************)
UtxoValue == 100000000

SendAmount == 50000000

Fee == 1000

ReceiveIndex == 0

ChangeIndex == 1

\* mutant of AmountSub: the difference saturates at zero
AmountSubSaturating(x, y) == IF y > x THEN Some(0) ELSE Some(x - y)

\* Amount's subtraction: Some(difference), or None where it panics
AmountSub(x, y) == IF y > x THEN None ELSE Some(x - y)

\* mutant of DerivationEntry: the key is derived one index further
DerivationEntryNextIndex(origin_, index) ==
    [pk |-> ChildPub(origin_.xpub, IndexToString(index + 1)),
     fingerprint |-> origin_.fingerprint,
     path |-> origin_.derivation_path \o <<IndexToString(index)>>]

\* wallet.derive_address(index, is_change) as the coordinator calls it: the
\* wallet of lib.rs has derive_address(index) only; by the specification's
\* deriveAt(index) the address is that of the descriptor at the index
DeriveAddressFor(wallet, index, is_change) == DeriveAddress(wallet, index)

\* mutant of DerivationEntry: the path stops at the account level
DerivationEntryBasePath(origin_, index) ==
    [pk |-> ChildPub(origin_.xpub, IndexToString(index)),
     fingerprint |-> origin_.fingerprint,
     path |-> origin_.derivation_path]

\* the bip32_derivation entry the coordinator adds for one origin
DerivationEntry(origin_, index) ==
    [pk |-> ChildPub(origin_.xpub, IndexToString(index)),
     fingerprint |-> origin_.fingerprint,
     path |-> origin_.derivation_path \o <<IndexToString(index)>>]

\* the previous output the coordinator spends: 1 BTC locked to the wallet's
\* receive script
SimulatedUtxo(wallet) ==
    [value |-> UtxoValue,
     script_pubkey |-> DeriveAddressFor(wallet, ReceiveIndex, FALSE)]

\* the amounts coordinator main works with
CoordinatorAmounts ==
    [utxo_value |-> UtxoValue, send_amount |-> SendAmount, fee |-> Fee]

\* coordinator main for given amounts: Some(psbt), or None where it ends with
\* an error or a panic
CoordinatorBuildWith(key_paths, amounts_) ==
    LET w == FromKeyFiles(key_paths)
    IN  IF w = None THEN None
        ELSE
        LET wallet == w[1]
            simulated_utxo == [SimulatedUtxo(wallet) EXCEPT !.value = amounts_.utxo_value]
            rest == AmountSub(simulated_utxo.value, amounts_.send_amount)
            change == IF rest = None THEN None ELSE AmountSub(rest[1], amounts_.fee)
        IN  IF change = None THEN None
            ELSE
            LET unsigned_tx ==
                    [version |-> 2, lock_time |-> 0,
                     input |-> << [previous_output |-> [txid |-> 1, vout |-> 0],
                                   sequence |-> "ENABLE_RBF_NO_LOCKTIME"] >>,
                     output |-> << [value |-> amounts_.send_amount,
                                    script_pubkey |-> [p2wpkh |-> "dest"]],
                                   [value |-> change[1],
                                    script_pubkey |->
                                        DeriveAddressFor(wallet, ChangeIndex, TRUE)] >>]
                psbt == PsbtFromUnsignedTx(unsigned_tx)
                origins == wallet.xpub_origins
            IN  Some([psbt EXCEPT
                        !.inputs[1].witness_utxo = Some(simulated_utxo),
                        !.inputs[1].witness_script = Some(WitnessScript(wallet, ReceiveIndex)),
                        !.inputs[1].bip32_derivation =
                            { DerivationEntry(origins[i], ReceiveIndex) : i \in 1..Len(origins) }])

\* coordinator main: Some(psbt), or None where it ends with an error
CoordinatorBuild(key_paths) == CoordinatorBuildWith(key_paths, CoordinatorAmounts)

\* the key files the coordinator loads: key_a.json, key_b.json, key_c.json
CoordinatorKeyFiles ==
    [i \in 1..Len(Cosigners) |->
        CHOOSE kd \in KeygenFiles : kd.xprv = Cosigners[i]]

(***************************************************************************)
(* The signer (bin/signer.rs).                                             *)
(***************************************************************************)
\* mutant of FindKey: the fingerprints are not compared
FindAnyKey(bip32_derivation, my_fingerprint) ==
    IF bip32_derivation = {} THEN None
    ELSE Some(CHOOSE e \in bip32_derivation :
                  \A o \in bip32_derivation : e.pk <= o.pk)

\* the first entry, in the map's key order, whose fingerprint prints as the
\* key record's fingerprint string: Some(entry) or None
FindKey(bip32_derivation, my_fingerprint) ==
    LET mine == { e \in bip32_derivation :
                    FingerprintToString(e.fingerprint) = my_fingerprint }
    IN  IF mine = {} THEN None
        ELSE Some(CHOOSE e \in mine : \A o \in mine : e.pk <= o.pk)

\* p2wsh_signature_hash: the BIP143 digest of one input under SIGHASH_ALL
P2wshSignatureHash(tx, input_index, witness_script, value) ==
    [tx |-> tx, input_index |-> input_index, script |-> witness_script,
     value |-> value, sighash_type |-> "ALL"]

\* mutant of SignEcdsa: the nonce is drawn with auxiliary randomness
SignEcdsaAuxRand(digest, xprv, child) ==
    [xprv |-> xprv, child |-> child, digest |-> digest,
     sighash_type |-> "ALL", rfc6979 |-> FALSE]

\* sign_ecdsa (RFC 6979 nonce) and EcdsaSignature::sighash_all
SignEcdsa(digest, xprv, child) ==
    [xprv |-> xprv, child |-> child, digest |-> digest,
     sighash_type |-> "ALL", rfc6979 |-> TRUE]

\* mutant of DerivedKeyMismatch: the derived key is not compared
NeverMismatch(derived_secp_pubkey, target_pubkey) == FALSE

\* derived_secp_pubkey != target_pubkey
DerivedKeyMismatch(derived_secp_pubkey, target_pubkey) ==
    derived_secp_pubkey # target_pubkey

\* mutant of AddPartialSig: the derivation entry of the signing key is used up
AddPartialSigDropsEntry(input, derived_pubkey, ecdsa_sig) ==
    [input EXCEPT
        !.partial_sigs = MapInsert(@, derived_pubkey, ecdsa_sig),
        !.bip32_derivation = { e \in @ : e.pk # derived_pubkey.inner }]

\* psbt.inputs[i].partial_sigs.insert(derived_pubkey, ecdsa_sig): the only
\* write the signer makes to the PSBT
AddPartialSig(input, derived_pubkey, ecdsa_sig) ==
    [input EXCEPT !.partial_sigs = MapInsert(@, derived_pubkey, ecdsa_sig)]

\* mutant of SignerResult: a missing field ends the loop but not the run
SignerResultAlwaysOk(ok, err, psbt, signed_count) ==
    [ok |-> TRUE, err |-> err, psbt |-> psbt, signed_count |-> signed_count]

\* how a signer run ends: with the PSBT it holds in memory
SignerResult(ok, err, psbt, signed_count) ==
    [ok |-> ok, err |-> err, psbt |-> psbt, signed_count |-> signed_count]

\* mutant of SignInputs: the fields are required before the keys are compared
RECURSIVE SignInputsFieldsFirst(_, _, _, _)
SignInputsFieldsFirst(key_data, psbt, i, signed_count) ==
    IF i > Len(psbt.inputs) THEN SignerResult(TRUE, "", psbt, signed_count)
    ELSE
    LET input == psbt.inputs[i]
        found_key == FindKey(input.bip32_derivation, key_data.fingerprint)
    IN  IF found_key = None THEN SignInputsFieldsFirst(key_data, psbt, i + 1, signed_count)
        ELSE
        LET target_pubkey == found_key[1].pk
            derivation_path == found_key[1].path
        IN  IF derivation_path = <<>>
            THEN SignerResult(FALSE, "Empty derivation path", psbt, signed_count)
            ELSE
            LET child_index == derivation_path[Len(derivation_path)]
                derived_secp_pubkey == ChildPub(key_data.xprv, child_index)
                derived_pubkey == [compressed |-> TRUE, inner |-> derived_secp_pubkey]
            IN  IF input.witness_script = None
                THEN SignerResult(FALSE, "Missing witness script", psbt, signed_count)
                ELSE IF input.witness_utxo = None
                THEN SignerResult(FALSE, "Missing witness UTXO", psbt, signed_count)
                ELSE IF DerivedKeyMismatch(derived_secp_pubkey, target_pubkey)
                THEN SignInputsFieldsFirst(key_data, psbt, i + 1, signed_count)
                ELSE
                LET sighash == P2wshSignatureHash(psbt.unsigned_tx, i - 1,
                                   input.witness_script[1], input.witness_utxo[1].value)
                    ecdsa_sig == SignEcdsa(sighash, key_data.xprv, child_index)
                IN  SignInputsFieldsFirst(key_data,
                        [psbt EXCEPT !.inputs[i] =
                                        AddPartialSig(@, derived_pubkey, ecdsa_sig)],
                        i + 1, signed_count + 1)

\* the loop over the inputs, from input i (1-based here, i - 1 in the code)
RECURSIVE SignInputs(_, _, _, _)
SignInputs(key_data, psbt, i, signed_count) ==
    IF i > Len(psbt.inputs) THEN SignerResult(TRUE, "", psbt, signed_count)
    ELSE
    LET input == psbt.inputs[i]
        found_key == FindKey(input.bip32_derivation, key_data.fingerprint)
    IN  IF found_key = None THEN SignInputs(key_data, psbt, i + 1, signed_count)
        ELSE
        LET target_pubkey == found_key[1].pk
            derivation_path == found_key[1].path
        IN  IF derivation_path = <<>>
            THEN SignerResult(FALSE, "Empty derivation path", psbt, signed_count)
            ELSE
            LET child_index == derivation_path[Len(derivation_path)]
                derived_secp_pubkey == ChildPub(key_data.xprv, child_index)
                derived_pubkey == [compressed |-> TRUE, inner |-> derived_secp_pubkey]
            IN  IF DerivedKeyMismatch(derived_secp_pubkey, target_pubkey)
                THEN SignInputs(key_data, psbt, i + 1, signed_count)
                ELSE IF input.witness_script = None
                THEN SignerResult(FALSE, "Missing witness script", psbt, signed_count)
                ELSE IF input.witness_utxo = None
                THEN SignerResult(FALSE, "Missing witness UTXO", psbt, signed_count)
                ELSE
                LET sighash == P2wshSignatureHash(psbt.unsigned_tx, i - 1,
                                   input.witness_script[1], input.witness_utxo[1].value)
                    ecdsa_sig == SignEcdsa(sighash, key_data.xprv, child_index)
                IN  SignInputs(key_data,
                        [psbt EXCEPT !.inputs[i] =
                                        AddPartialSig(@, derived_pubkey, ecdsa_sig)],
                        i + 1, signed_count + 1)

\* the sum of the inputs' partial_sigs counts
RECURSIVE TotalSigs(_)
TotalSigs(inputs) ==
    IF inputs = <<>> THEN 0
    ELSE Cardinality(inputs[1].partial_sigs) + TotalSigs(Tail(inputs))

\* the number of signatures at which the signer reports the threshold reached
SignerReportThreshold == 2

\* signer main on a loaded PSBT
SignPsbt(key_data, psbt) == SignInputs(key_data, psbt, 1, 0)

(***************************************************************************)
(* The finalizer (bin/finalizer.rs).                                       *)
(***************************************************************************)
\* the signatures main requires of every input
RequiredSigs == 2

\* the signatures finalize_psbt takes for a witness
TakenSigs == 2

\* mutant of InsufficientInputs: one signature is taken to be enough
InsufficientInputsBelowOne(psbt) ==
    { i \in 1..Len(psbt.inputs) : Cardinality(psbt.inputs[i].partial_sigs) < 1 }

\* main's check: the inputs (1-based) with too few signatures
InsufficientInputs(psbt) ==
    { i \in 1..Len(psbt.inputs) :
        Cardinality(psbt.inputs[i].partial_sigs) < RequiredSigs }

\* the elements of a witness stack
EmptyElement == [kind |-> "empty", bytes |-> <<>>]

SigElement(sig) == [kind |-> "sig", bytes |-> <<sig>>]

ScriptElement(script) == [kind |-> "script", bytes |-> <<script>>]

\* the signatures finalize_psbt selects: sorted by key, the first two
SelectedSigs(partial_sigs) ==
    Take(SortBySerializedKey(MapIter(partial_sigs)), TakenSigs)

\* mutant of BuildWitness: the stack starts at the first signature
BuildWitnessNoPlaceholder(partial_sigs, witness_script) ==
    LET selected_sigs == SelectedSigs(partial_sigs)
    IN  [j \in 1..Len(selected_sigs) |-> SigElement(selected_sigs[j].sig)]
        \o <<ScriptElement(witness_script)>>

\* the witness stack of one input
BuildWitness(partial_sigs, witness_script) ==
    LET selected_sigs == SelectedSigs(partial_sigs)
    IN  <<EmptyElement>>
        \o [j \in 1..Len(selected_sigs) |-> SigElement(selected_sigs[j].sig)]
        \o <<ScriptElement(witness_script)>>

\* mutant of FinalizeInput: bip32_derivation is not cleared
FinalizeInputKeepsDerivation(input, witness) ==
    [input EXCEPT !.final_script_witness = Some(witness),
                  !.partial_sigs = {},
                  !.witness_script = None]

\* mutant of FinalizeInput: witness_utxo is cleared too
FinalizeInputDropsUtxo(input, witness) ==
    [input EXCEPT !.final_script_witness = Some(witness),
                  !.partial_sigs = {},
                  !.bip32_derivation = {},
                  !.witness_script = None,
                  !.witness_utxo = None]

\* the fields finalize_psbt sets and clears on one input
FinalizeInput(input, witness) ==
    [input EXCEPT !.final_script_witness = Some(witness),
                  !.partial_sigs = {},
                  !.bip32_derivation = {},
                  !.witness_script = None]

\* mutant of FinalizeErr: the PSBT finalized so far is handed back
FinalizeErrKeepsPsbt(psbt, err) == [ok |-> FALSE, err |-> err, psbt |-> Some(psbt)]

\* the Err of finalize_psbt: the PSBT it owns is dropped, none is returned
FinalizeErr(psbt, err) == [ok |-> FALSE, err |-> err, psbt |-> None]

\* finalize_psbt's loop, from input i (1-based)
RECURSIVE FinalizeInputs(_, _)
FinalizeInputs(psbt, i) ==
    IF i > Len(psbt.inputs) THEN [ok |-> TRUE, err |-> "", psbt |-> Some(psbt)]
    ELSE
    LET input == psbt.inputs[i]
    IN  IF input.witness_script = None THEN FinalizeErr(psbt, "Missing witness script")
        ELSE
        LET witness == BuildWitness(input.partial_sigs, input.witness_script[1])
        IN  FinalizeInputs([psbt EXCEPT !.inputs[i] = FinalizeInput(@, witness)], i + 1)

FinalizePsbt(psbt) == FinalizeInputs(psbt, 1)

\* the sum of the inputs' witness_utxo values, and of the outputs' values
RECURSIVE SumValues(_)
SumValues(s) == IF s = <<>> THEN 0 ELSE s[1].value + SumValues(Tail(s))

\* Psbt::extract_tx: the fee needs every input's UTXO and must not be negative
ExtractTx(psbt) ==
    IF \E i \in 1..Len(psbt.inputs) : psbt.inputs[i].witness_utxo = None
    THEN [ok |-> FALSE, err |-> "MissingInputValue", tx |-> None]
    ELSE IF SumValues([i \in 1..Len(psbt.inputs) |-> psbt.inputs[i].witness_utxo[1]])
              < SumValues(psbt.unsigned_tx.output)
    THEN [ok |-> FALSE, err |-> "SendingTooMuch", tx |-> None]
    ELSE [ok |-> TRUE, err |-> "",
          tx |-> Some([psbt.unsigned_tx EXCEPT !.input =
                    [i \in 1..Len(psbt.inputs) |->
                        [previous_output |-> psbt.unsigned_tx.input[i].previous_output,
                         sequence |-> psbt.unsigned_tx.input[i].sequence,
                         witness |-> IF psbt.inputs[i].final_script_witness = None
                                     THEN <<>>
                                     ELSE psbt.inputs[i].final_script_witness[1]]]])]

\* how a finalizer run ends: status, the PSBT main still owns when it exits
\* at the signature check (mem), the PSBT finalize_psbt returned (psbt), and
\* the extracted transaction (tx)
FinalizerRun(loaded) ==
    IF InsufficientInputs(loaded) # {}
    THEN [status |-> "insufficient", mem |-> Some(loaded), psbt |-> None, tx |-> None]
    ELSE
    LET fin == FinalizePsbt(loaded)
    IN  IF ~fin.ok
        THEN [status |-> "finalize_err", mem |-> None, psbt |-> fin.psbt, tx |-> None]
        ELSE
        LET ex == ExtractTx(fin.psbt[1])
        IN  IF ~ex.ok
            THEN [status |-> "extract_err", mem |-> None, psbt |-> fin.psbt, tx |-> None]
            ELSE [status |-> "ok", mem |-> None, psbt |-> fin.psbt, tx |-> ex.tx]

(***************************************************************************)
(* The merge of independently signed copies.  No tool of the repository    *)
(* performs it; the specification (section 5) requires it of whoever       *)
(* collects the copies: merge(a, b) unions each input's partial_sigs and   *)
(* fails if the unsigned transactions differ.                              *)
(***************************************************************************)
\* the union of two partial_sigs maps: an entry of n is added where m has no
\* entry under its key
MapUnion(m, n) == m \cup { e \in n : e.pk \notin Keys(m) }

\* merge(a, b): Some(psbt), or None where the unsigned transactions differ
Merge(a, b) ==
    IF a.unsigned_tx # b.unsigned_tx THEN None
    ELSE Some([a EXCEPT !.inputs =
                 [i \in 1..Len(a.inputs) |->
                     [a.inputs[i] EXCEPT
                         !.partial_sigs = MapUnion(@, b.inputs[i].partial_sigs)]]])

(***************************************************************************)
(* The PSBTs a signer or finalizer may be handed that no coordinator run   *)
(* built: any well-formed PSBT deserialises.                               *)
(***************************************************************************)
\* the PSBT the coordinator builds from the three keygen files
AssemblerPsbt == CoordinatorBuild(CoordinatorKeyFiles)[1]

\* a transaction with n inputs and the coordinator's outputs
ExternalTx(n) ==
    [AssemblerPsbt.unsigned_tx EXCEPT !.input =
        [i \in 1..n |-> [previous_output |-> [txid |-> i, vout |-> 0],
                         sequence |-> "ENABLE_RBF_NO_LOCKTIME"]]]

\* a signature some other tool put into the PSBT: made with key xprv (the
\* string "nobody": with no cosigner's key) and not with this signer's nonce
ExternalSig(tx, i, input, xprv) ==
    [xprv |-> xprv, child |-> "0",
     digest |-> P2wshSignatureHash(tx, i - 1,
                    AssemblerPsbt.inputs[1].witness_script[1], UtxoValue),
     sighash_type |-> "ALL", rfc6979 |-> FALSE]

ExternalEntry(tx, i, input, compressed, inner, xprv) ==
    [pk |-> [compressed |-> compressed, inner |-> inner],
     sig |-> ExternalSig(tx, i, input, xprv)]

\* clean: the coordinator's input; forged: with two signatures no cosigner
\* made; no_script_signed: those two and no witness_script; no_utxo: no
\* witness_utxo; mismatch: the entry with a's fingerprint names another key;
\* uncompressed: signed by all three with another tool, c's key uncompressed;
\* stranger: a fourth derivation entry; no_derivation: no entry at all
InputKinds ==
    {"clean", "forged", "no_script_signed", "no_utxo", "mismatch",
     "mismatch_no_script", "uncompressed", "stranger", "no_derivation"}

\* input i of an external PSBT over transaction tx
ExternalInput(kind, tx, i) ==
    LET base == AssemblerPsbt.inputs[1]
        wrong == { IF e.fingerprint = MasterFingerprint("a")
                   THEN [e EXCEPT !.pk = ChildPub("s", "0")] ELSE e :
                   e \in base.bip32_derivation }
        two == { ExternalEntry(tx, i, base, TRUE, ChildPub("a", "0"), "nobody"),
                 ExternalEntry(tx, i, base, TRUE, ChildPub("b", "0"), "nobody") }
    IN  CASE kind = "clean" -> base
          [] kind = "forged" -> [base EXCEPT !.partial_sigs = two]
          [] kind = "no_script_signed" ->
                [base EXCEPT !.witness_script = None, !.partial_sigs = two]
          [] kind = "no_utxo" -> [base EXCEPT !.witness_utxo = None]
          [] kind = "mismatch" -> [base EXCEPT !.bip32_derivation = wrong]
          [] kind = "mismatch_no_script" ->
                [base EXCEPT !.bip32_derivation = wrong, !.witness_script = None]
          [] kind = "uncompressed" ->
                [base EXCEPT !.partial_sigs =
                    { ExternalEntry(tx, i, base, FALSE, ChildPub("c", "0"), "c"),
                      ExternalEntry(tx, i, base, TRUE, ChildPub("a", "0"), "a"),
                      ExternalEntry(tx, i, base, TRUE, ChildPub("b", "0"), "b") }]
          [] kind = "stranger" ->
                [base EXCEPT !.bip32_derivation = @ \cup
                    { [pk |-> ChildPub("s", "0"),
                       fingerprint |-> MasterFingerprint("s"),
                       path |-> BasePath \o <<"0">>] }]
          [] OTHER -> [base EXCEPT !.bip32_derivation = {}]

ExternalPsbts ==
    UNION { { [unsigned_tx |-> ExternalTx(n),
               inputs |-> [i \in 1..n |-> ExternalInput(kinds[i], ExternalTx(n), i)]] :
              kinds \in [1..n -> InputKinds] } :
            n \in 1..MaxInputs }

(***************************************************************************)
(* The state: the PSBT file handed from one tool to the next, where it     *)
(* came from, and the last tool run with what it wrote.                    *)
(***************************************************************************)
\* encode::serialize_hex
SerializeHex(tx) == [hex |-> tx]

\* what the text of a PSBT file holds
FileOf(psbt) == Some(Base64Encode(PsbtSerialize(psbt)))

\* a tool run: the PSBT it loaded, how it ended, the PSBT it held or returned,
\* the transaction it extracted, the text it wrote to final_tx.hex and the
\* signed PSBT text a signer printed
RunRecord(tool, key, loaded, ok, err, signed_count, threshold, mem, psbt, tx) ==
    [tool |-> tool, key |-> key, loaded |-> loaded, ok |-> ok, err |-> err,
     signed_count |-> signed_count, threshold_reached |-> threshold,
     mem |-> mem, psbt |-> psbt, tx |-> tx,
     final_tx_hex |-> IF tx = None THEN None ELSE Some(SerializeHex(tx[1])),
     printed |-> IF tool = "signer" /\ ok
                 THEN Some(Base64Encode(PsbtSerialize(psbt[1]))) ELSE None]

NoRun == RunRecord("none", NoKey, None, TRUE, "", 0, FALSE, None, None, None)

Init ==
    /\ \/ file = None /\ origin = "none"
       \/ \E p \in ExternalPsbts : file = FileOf(p) /\ origin = "external"
    /\ run = NoRun
    /\ key_files = CoordinatorKeyFiles
    /\ multisig_wallet = None
    /\ amounts = CoordinatorAmounts

\* cargo run --bin coordinator: writes unsigned.psbt.base64, or ends before
\* that and writes nothing
Coordinator ==
    LET built == CoordinatorBuildWith(key_files, amounts)
    IN  /\ multisig_wallet' = FromKeyFiles(key_files)
        /\ file' = IF built # None THEN FileOf(built[1]) ELSE file
        /\ origin' = IF built # None THEN "assembler" ELSE origin
        /\ run' = RunRecord("coordinator", NoKey, None, built # None,
                            IF built # None THEN "" ELSE "no PSBT built",
                            0, FALSE, None, built, None)
        /\ UNCHANGED <<key_files, amounts>>

\* cargo run --bin signer -- <key_file> <psbt>: on success the signed PSBT is
\* written to signed_by_<name>.psbt.base64, the file handed on
Signer(key_data) ==
    /\ file # None
    /\ LET loaded == LoadPsbt(file[1])
           r == SignPsbt(key_data, loaded)
       IN  /\ run' = RunRecord("signer", key_data, Some(loaded), r.ok, r.err,
                               r.signed_count,
                               r.ok /\ TotalSigs(r.psbt.inputs) >= SignerReportThreshold,
                               None, Some(r.psbt), None)
           /\ file' = IF r.ok THEN FileOf(r.psbt) ELSE file
    /\ UNCHANGED <<origin, key_files, multisig_wallet, amounts>>

\* cargo run --bin finalizer -- <psbt>: on success writes final_tx.hex
Finalizer ==
    /\ file # None
    /\ LET loaded == LoadPsbt(file[1])
           r == FinalizerRun(loaded)
       IN  run' = RunRecord("finalizer", NoKey, Some(loaded), r.status = "ok",
                               r.status, 0, FALSE, r.mem, r.psbt, r.tx)
    /\ UNCHANGED <<file, origin, key_files, multisig_wallet, amounts>>

Next ==
    \/ Coordinator
    \/ \E key_data \in KeyFiles : Signer(key_data)
    \/ Finalizer

Spec == Init /\ [][Next]_vars

(***************************************************************************)
(* The wallet construction alone: from_key_files called once on a list of *)
(* key files.                                                              *)
(***************************************************************************)
InitWallet ==
    /\ key_files \in KeyFileLists
    /\ multisig_wallet = None
    /\ file = None
    /\ origin = "none"
    /\ run = NoRun
    /\ amounts = CoordinatorAmounts

\* MultisigWallet::from_key_files(key_files): the wallet, or the Err
LoadWallet ==
    /\ run = NoRun
    /\ multisig_wallet' = FromKeyFiles(key_files)
    /\ run' = RunRecord("from_key_files", NoKey, None, multisig_wallet' # None,
                        IF multisig_wallet' # None THEN "" ELSE "Expected exactly 3 key files",
                        0, FALSE, None, None, None)
    /\ UNCHANGED <<file, origin, key_files, amounts>>

\* the address indexes the toolkit derives at: the receive and the change index
DerivedIndexes == {ReceiveIndex, ChangeIndex}

\* wallet.witness_script(index) and wallet.derive_address(index) on the wallet
\* from_key_files returned
DeriveAt(index) ==
    /\ run.tool \in {"from_key_files", "derive_address"}
    /\ multisig_wallet # None
    /\ run' = RunRecord("derive_address", NoKey, None, TRUE, "", 0, FALSE,
                        Some([index |-> index,
                              witness_script |-> WitnessScript(multisig_wallet[1], index),
                              address |-> DeriveAddress(multisig_wallet[1], index)]),
                        None, None)
    /\ UNCHANGED <<file, origin, key_files, multisig_wallet, amounts>>

NextWallet ==
    \/ LoadWallet
    \/ \E index \in DerivedIndexes : DeriveAt(index)

SpecWallet == InitWallet /\ [][NextWallet]_vars

(***************************************************************************)
(* The coordinator's amount arithmetic alone: coordinator main run once    *)
(* with the three keygen files, for a spent value, a send amount and a fee *)
(* in satoshi.                                                             *)
(***************************************************************************)
\* the amounts tried: zero, the coordinator's own amounts and their neighbours
AmountValues ==
    {0, 1, Fee - 1, Fee, Fee + 1,
     UtxoValue - SendAmount - Fee, UtxoValue - SendAmount,
     SendAmount - 1, SendAmount, SendAmount + 1,
     UtxoValue - Fee, UtxoValue - Fee + 1,
     UtxoValue - 1, UtxoValue, UtxoValue + 1}

InitAmounts ==
    /\ amounts \in [utxo_value : AmountValues, send_amount : AmountValues,
                     fee : AmountValues]
    /\ key_files = CoordinatorKeyFiles
    /\ multisig_wallet = None
    /\ file = None
    /\ origin = "none"
    /\ run = NoRun

NextAmounts == run = NoRun /\ Coordinator

SpecAmounts == InitAmounts /\ [][NextAmounts]_vars

(***************************************************************************)
(* Properties.                                                             *)
(***************************************************************************)
\* the last run was a finalizer run
FinalizerRan == run.tool = "finalizer"

\* the last run was a finalizer run in which finalize_psbt returned a PSBT
Finalized == run.tool = "finalizer" /\ run.psbt # None

\* the last run was a signer run that wrote its PSBT
SignerWrote == run.tool = "signer" /\ run.ok

\* the inputs of the PSBT the last run loaded
LoadedInputs == run.loaded[1].inputs

\* some loaded input holds fewer than two partial signatures
SomeInputBelowTwo ==
    \E i \in 1..Len(LoadedInputs) : Cardinality(LoadedInputs[i].partial_sigs) < 2

\* C1: a finalizer run on a PSBT in which some input has fewer than 2 partial
\* signatures ends with the insufficient-signatures error, extracts and writes
\* no transaction, returns no finalized PSBT, and the PSBT it holds and the
\* PSBT file are the PSBT it loaded
C1_InsufficientSignaturesFail ==
    (FinalizerRan /\ SomeInputBelowTwo) =>
        /\ ~run.ok
        /\ run.err = "insufficient"
        /\ run.tx = None
        /\ run.final_tx_hex = None
        /\ run.psbt = None
        /\ run.mem = run.loaded
        /\ file = FileOf(run.loaded[1])

\* C1 witness: a two-input PSBT, one input with two signatures and the other
\* with fewer, was handed to the finalizer
C1_Witness ==
    /\ FinalizerRan
    /\ SomeInputBelowTwo
    /\ \E i \in 1..Len(LoadedInputs) : Cardinality(LoadedInputs[i].partial_sigs) >= 2

\* the entry's signature was made with the private key of the entry's public
\* key, and that key is a cosigner's
MadeByCosigner(e) ==
    /\ e.sig.xprv \in {"a", "b", "c"}
    /\ ChildPub(e.sig.xprv, e.sig.child) = e.pk.inner

\* C2: an input carries a final witness only if, when it was finalized, it
\* held at least 2 partial signatures under distinct cosigner public keys,
\* each made with the corresponding private key
C2_FinalWitnessNeedsTwoCosigners ==
    Finalized =>
        \A i \in 1..Len(LoadedInputs) :
            run.psbt[1].inputs[i].final_script_witness # None =>
                Cardinality({ e.pk.inner : e \in
                    { x \in LoadedInputs[i].partial_sigs : MadeByCosigner(x) } }) >= 2

\* the witness stack finalize_psbt stored on input i
FinalWitness(i) == run.psbt[1].inputs[i].final_script_witness[1]

\* C3: the final witness of every input is one empty element, then two of the
\* input's signatures in ascending order of their public keys' bytes, then the
\* witness script: 4 elements
C3_WitnessStackShape ==
    Finalized =>
        \A i \in 1..Len(LoadedInputs) :
            /\ run.psbt[1].inputs[i].final_script_witness # None
            /\ Len(FinalWitness(i)) = 4
            /\ FinalWitness(i)[1].kind = "empty" /\ FinalWitness(i)[1].bytes = <<>>
            /\ FinalWitness(i)[2].kind = "sig"
            /\ FinalWitness(i)[3].kind = "sig"
            /\ FinalWitness(i)[4].kind = "script"
            /\ FinalWitness(i)[4].bytes = LoadedInputs[i].witness_script
            /\ \E e1 \in LoadedInputs[i].partial_sigs :
                   \E e2 \in LoadedInputs[i].partial_sigs \ {e1} :
                       /\ FinalWitness(i)[2].bytes = <<e1.sig>>
                       /\ FinalWitness(i)[3].bytes = <<e2.sig>>
                       /\ e1.pk.inner <= e2.pk.inner

\* C3 witness: a finalized input whose map yields its signatures in another
\* order than the ascending order of the keys' bytes
C3_Witness ==
    /\ Finalized
    /\ \E i \in 1..Len(LoadedInputs) :
           \E e1 \in LoadedInputs[i].partial_sigs :
               \E e2 \in LoadedInputs[i].partial_sigs :
                   PkLess(e1.pk, e2.pk) /\ e2.pk.inner < e1.pk.inner

\* C4: of an input with more than 2 partial signatures the witness holds the
\* signatures of exactly the 2 entries lowest in key order: every entry left
\* out has a key no lower than the keys of the two put in
C4_LowestTwoSelected ==
    Finalized =>
        \A i \in 1..Len(LoadedInputs) :
            Cardinality(LoadedInputs[i].partial_sigs) > 2 =>
                LET inWitness == { e \in LoadedInputs[i].partial_sigs :
                                     \E j \in 1..Len(FinalWitness(i)) :
                                         FinalWitness(i)[j].bytes = <<e.sig>> }
                IN  /\ Cardinality(inWitness) = 2
                    /\ \A e \in inWitness :
                           \A o \in LoadedInputs[i].partial_sigs \ inWitness :
                               e.pk.inner <= o.pk.inner

\* C4 witness: all three cosigners' signer runs signed the input, then the
\* finalizer ran
C4_Witness ==
    /\ Finalized
    /\ \E i \in 1..Len(LoadedInputs) :
           /\ Cardinality(LoadedInputs[i].partial_sigs) = 3
           /\ \A e \in LoadedInputs[i].partial_sigs : e.sig.rfc6979

\* C5: a finalizer run that fails at the signature check or inside
\* finalize_psbt returns no PSBT, extracts no transaction, writes nothing and
\* leaves the PSBT file as it was
C5_AllOrNothing ==
    [][(run'.tool = "finalizer" /\ run'.err \in {"insufficient", "finalize_err"}) =>
          /\ run'.psbt = None
          /\ run'.tx = None
          /\ run'.final_tx_hex = None
          /\ run'.mem \in {None, run'.loaded}
          /\ file' = file
          /\ file' = FileOf(run'.loaded[1])]_vars

\* C5 witness: finalize_psbt failed on the second input for its missing
\* witness script, after it had processed the first
C5_Witness ==
    /\ FinalizerRan
    /\ run.err = "finalize_err"
    /\ Len(LoadedInputs) >= 2
    /\ LoadedInputs[1].witness_script # None
    /\ LoadedInputs[2].witness_script = None

\* C6: a signer run on a finalized PSBT, with any key file, ends without
\* error, signs no input and leaves the PSBT as it is: every input stays
\* finalized and without partial signatures
C6_FinalizationIrreversible ==
    Finalized =>
        \A key_data \in KeyFiles :
            LET r == SignPsbt(key_data, run.psbt[1])
            IN  /\ r.ok
                /\ r.signed_count = 0
                /\ r.psbt = run.psbt[1]
                /\ \A i \in 1..Len(r.psbt.inputs) :
                       /\ r.psbt.inputs[i].partial_sigs = {}
                       /\ r.psbt.inputs[i].final_script_witness # None

\* C6 witness: a PSBT whose inputs named every cosigner's key was finalized
C6_Witness ==
    /\ Finalized
    /\ \A i \in 1..Len(LoadedInputs) :
           \A x \in {"a", "b", "c"} :
               \E e \in LoadedInputs[i].bip32_derivation :
                   e.fingerprint = MasterFingerprint(x) /\ e.pk = ChildPub(x, "0")

\* C7: after finalize_psbt succeeds every input has its final witness, no
\* partial signatures, no derivations and no witness script; witness_utxo and
\* the unsigned transaction are those of the PSBT that was loaded
C7_FinalizeFrame ==
    Finalized =>
        /\ run.psbt[1].unsigned_tx = run.loaded[1].unsigned_tx
        /\ Len(run.psbt[1].inputs) = Len(LoadedInputs)
        /\ \A i \in 1..Len(LoadedInputs) :
               /\ run.psbt[1].inputs[i].final_script_witness # None
               /\ run.psbt[1].inputs[i].partial_sigs = {}
               /\ run.psbt[1].inputs[i].bip32_derivation = {}
               /\ run.psbt[1].inputs[i].witness_script = None
               /\ run.psbt[1].inputs[i].witness_utxo = LoadedInputs[i].witness_utxo

\* C7 witness: a two-input PSBT with its UTXOs was finalized and extracted
C7_Witness ==
    /\ Finalized
    /\ run.ok
    /\ Len(LoadedInputs) = 2
    /\ \A i \in 1..2 : LoadedInputs[i].witness_utxo # None

\* C8: in the PSBT file the coordinator built and signers signed, every key of
\* an input's partial_sigs is a key of that input's bip32_derivation
C8_SigKeysAreDerivationKeys ==
    origin = "assembler" =>
        \A i \in 1..Len(LoadPsbt(file[1]).inputs) :
            { e.pk.inner : e \in LoadPsbt(file[1]).inputs[i].partial_sigs }
                \subseteq Keys(LoadPsbt(file[1]).inputs[i].bip32_derivation)

\* C8 witness: a signer run signed the coordinator's PSBT
C8_Witness ==
    /\ origin = "assembler"
    /\ SignerWrote
    /\ run.signed_count = 1
    /\ LoadPsbt(file[1]).inputs[1].partial_sigs # {}

\* the partial_sigs of input i before and after the last signer run
SigsBefore(i) == run.loaded[1].inputs[i].partial_sigs

SigsAfter(i) == LoadPsbt(file[1]).inputs[i].partial_sigs

\* C9 as claimed: across a signer run no input's signature count decreases
\* and every (public key, signature) entry present before is present after
C9_EntriesKept ==
    SignerWrote =>
        \A i \in 1..Len(LoadedInputs) :
            /\ Cardinality(SigsAfter(i)) >= Cardinality(SigsBefore(i))
            /\ SigsBefore(i) \subseteq SigsAfter(i)

\* C9 as amended: across a signer run no input's signature count decreases,
\* every key present before is present after, and the only entry that changes
\* is the one under the signer's own derived key, which then holds the
\* signature this run made
C9_MonotonicButOwnEntryReplaced ==
    SignerWrote =>
        \A i \in 1..Len(LoadedInputs) :
            /\ Cardinality(SigsAfter(i)) >= Cardinality(SigsBefore(i))
            /\ Keys(SigsBefore(i)) \subseteq Keys(SigsAfter(i))
            /\ \A e \in SigsBefore(i) \ SigsAfter(i) :
                   /\ e.pk = [compressed |-> TRUE, inner |-> ChildPub(run.key.xprv, "0")]
                   /\ \E n \in SigsAfter(i) :
                          /\ n.pk = e.pk
                          /\ n.sig.xprv = run.key.xprv
                          /\ n.sig.rfc6979

\* C9 witness: a signer run replaced the signature another tool had stored
\* under the signer's key, next to other cosigners' signatures
C9_Witness ==
    /\ SignerWrote
    /\ \E i \in 1..Len(LoadedInputs) :
           /\ SigsBefore(i) \ SigsAfter(i) # {}
           /\ Cardinality(SigsBefore(i)) = 3

\* the four bytes of the last run's key record's fingerprint occur in no
\* input's bip32_derivation
FingerprintAbsent ==
    \A i \in 1..Len(LoadedInputs) :
        \A e \in LoadedInputs[i].bip32_derivation :
            e.fingerprint # FingerprintFromStr(run.key.fingerprint)

\* C10: a signer run whose fingerprint is in no input's bip32_derivation ends
\* without error, signs no input and writes the PSBT it loaded
C10_StrangerSignsNothing ==
    (run.tool = "signer" /\ FingerprintAbsent) =>
        /\ run.ok
        /\ run.signed_count = 0
        /\ run.psbt = run.loaded
        /\ file = FileOf(run.loaded[1])

\* C10 witness: the stranger's signer run on a PSBT that names the three
\* cosigners and holds a signature
C10_Witness ==
    /\ run.tool = "signer"
    /\ FingerprintAbsent
    /\ run.key.xprv = "s"
    /\ \E i \in 1..Len(LoadedInputs) :
           /\ LoadedInputs[i].bip32_derivation # {}
           /\ LoadedInputs[i].partial_sigs # {}

\* the PSBT the last run held in memory when it ended
HeldInputs == run.psbt[1].inputs

\* input i's bip32_derivation holds an entry with the fingerprint of the key
\* record the signer was run with
HasSignerFingerprint(i) ==
    \E e \in LoadedInputs[i].bip32_derivation :
        e.fingerprint = FingerprintFromStr(run.key.fingerprint)

\* C11: a signer run, however it ends, leaves the unsigned transaction and
\* every input's witness_utxo, witness_script and bip32_derivation as loaded;
\* an input's partial_sigs differs from the loaded one only where the input's
\* bip32_derivation holds the signer's fingerprint; a run that writes, writes
\* the PSBT it held
C11_SignerFrame ==
    run.tool = "signer" =>
        /\ run.psbt[1].unsigned_tx = run.loaded[1].unsigned_tx
        /\ Len(HeldInputs) = Len(LoadedInputs)
        /\ \A i \in 1..Len(LoadedInputs) :
               /\ HeldInputs[i].witness_utxo = LoadedInputs[i].witness_utxo
               /\ HeldInputs[i].witness_script = LoadedInputs[i].witness_script
               /\ HeldInputs[i].bip32_derivation = LoadedInputs[i].bip32_derivation
               /\ HeldInputs[i].partial_sigs # LoadedInputs[i].partial_sigs
                      => HasSignerFingerprint(i)
        /\ run.ok => LoadPsbt(file[1]) = run.psbt[1]

\* a signer run added a signature to one input and met another input without
\* its fingerprint
C11_Witness ==
    /\ SignerWrote
    /\ \E i, j \in 1..Len(LoadedInputs) :
           /\ HeldInputs[i].partial_sigs # LoadedInputs[i].partial_sigs
           /\ LoadedInputs[i].bip32_derivation # {}
           /\ ~HasSignerFingerprint(j)
           /\ LoadPsbt(file[1]).inputs[j] = LoadedInputs[j]

\* the wallet the coordinator loads
CoordinatorWallet == FromKeyFiles(CoordinatorKeyFiles)[1]

\* C12: the PSBT the coordinator writes has, on its input, the spent previous
\* output as witness_utxo, the wallet's witness script at the receive index,
\* and exactly one bip32_derivation entry per origin of the wallet, under the
\* origin's child public key at that index, with the origin's fingerprint and
\* the base path extended by the index; every keygen-written key file then
\* signs that input: run on the coordinator's PSBT, or on a copy other
\* cosigners signed, the signer ends well with one input signed and its entry
\* in partial_sigs
C12_AssemblerPsbtSignable ==
    /\ run.tool = "coordinator" =>
           LET psbt == LoadPsbt(file[1])
               input == psbt.inputs[1]
               origins == CoordinatorWallet.xpub_origins
           IN  /\ psbt = run.psbt[1]
               /\ Len(psbt.inputs) = 1
               /\ input.witness_utxo = Some(SimulatedUtxo(CoordinatorWallet))
               /\ input.witness_script =
                      Some(WitnessScript(CoordinatorWallet, ReceiveIndex))
               /\ Cardinality(input.bip32_derivation) = Len(origins)
               /\ \A k \in 1..Len(origins) :
                      [pk |-> DeriveChildPubkey(origins[k], ReceiveIndex),
                       fingerprint |-> origins[k].fingerprint,
                       path |-> BasePath \o <<IndexToString(ReceiveIndex)>>]
                          \in input.bip32_derivation
               /\ \A kd \in KeygenFiles :
                      LET r == SignPsbt(kd, psbt)
                      IN  r.ok /\ r.signed_count = 1
    /\ (run.tool = "signer" /\ origin = "assembler" /\ run.key \in KeygenFiles) =>
           /\ run.ok
           /\ run.signed_count = 1
           /\ \E e \in SigsAfter(1) :
                  /\ e.pk = [compressed |-> TRUE,
                             inner |-> ChildPub(run.key.xprv, IndexToString(ReceiveIndex))]
                  /\ e.sig.xprv = run.key.xprv

\* the three cosigners have signed the coordinator's PSBT, one after another
C12_Witness ==
    /\ SignerWrote
    /\ origin = "assembler"
    /\ run.signed_count = 1
    /\ Cardinality(SigsBefore(1)) = 2
    /\ { e.sig.xprv : e \in SigsAfter(1) } = { Cosigners[k] : k \in 1..Len(Cosigners) }

\* loaded input i names the signer's key: the first entry of its
\* bip32_derivation with the key record's fingerprint string holds the child
\* key the signer derives from the last component of the entry's path
NamesSignerKey(i) ==
    \E e \in LoadedInputs[i].bip32_derivation :
        /\ FingerprintToString(e.fingerprint) = run.key.fingerprint
        /\ \A o \in LoadedInputs[i].bip32_derivation :
               FingerprintToString(o.fingerprint) = run.key.fingerprint => e.pk <= o.pk
        /\ e.path # <<>>
        /\ e.pk = ChildPub(run.key.xprv, e.path[Len(e.path)])

\* C13: a signer run on a PSBT with an input that names the signer's key but
\* has no witness_script or no witness_utxo ends with an error, prints no
\* signed PSBT and writes none: the PSBT file still holds the PSBT the run
\* loaded, also where the run had signed earlier inputs in memory
C13_MissingFieldFailsWholeRun ==
    (/\ run.tool = "signer"
     /\ \E i \in 1..Len(LoadedInputs) :
            /\ NamesSignerKey(i)
            /\ \/ LoadedInputs[i].witness_script = None
               \/ LoadedInputs[i].witness_utxo = None)
        => /\ ~run.ok
           /\ run.err \in {"Missing witness script", "Missing witness UTXO"}
           /\ run.printed = None
           /\ LoadPsbt(file[1]) = run.loaded[1]

\* a signer run failed on a missing field after it had signed an earlier input
\* in memory
C13_Witness ==
    /\ run.tool = "signer"
    /\ ~run.ok
    /\ \E i, j \in 1..Len(LoadedInputs) :
           /\ i < j
           /\ HeldInputs[i].partial_sigs # LoadedInputs[i].partial_sigs
           /\ NamesSignerKey(j)
           /\ LoadedInputs[j].witness_utxo = None
    /\ LoadPsbt(file[1]) = run.loaded[1]

\* the witness stack is (empty, sig, sig, script)
FourElementStack(witness) ==
    /\ Len(witness) = 4
    /\ witness[1] = EmptyElement
    /\ witness[2].kind = "sig"
    /\ witness[3].kind = "sig"
    /\ witness[4].kind = "script"

\* C14: once a first cosigner A has signed the coordinator's unsigned PSBT,
\* input 0 holds exactly 1 partial signature; for every other cosigner B,
\* B's signer run on the same unsigned copy ends well with exactly 1, the
\* merge of the two signed copies succeeds and holds exactly 2, and the
\* finalizer run on the merged PSBT succeeds with a witness stack of exactly
\* 4 elements (empty, sig, sig, script); a finalizer run on a coordinator
\* PSBT that two cosigners signed one after the other gives the same stack
C14_EndToEndProgress ==
    /\ (/\ SignerWrote
        /\ origin = "assembler"
        /\ run.key \in KeygenFiles
        /\ run.loaded[1] = CoordinatorBuild(CoordinatorKeyFiles)[1])
           => /\ Cardinality(SigsAfter(1)) = 1
              /\ \A kb \in KeygenFiles \ {run.key} :
                     LET b == SignPsbt(kb, run.loaded[1])
                         merged == Merge(LoadPsbt(file[1]), b.psbt)
                     IN  /\ b.ok
                         /\ Cardinality(b.psbt.inputs[1].partial_sigs) = 1
                         /\ merged # None
                         /\ Cardinality(merged[1].inputs[1].partial_sigs) = 2
                         /\ LET f == FinalizerRun(merged[1])
                            IN  /\ f.status = "ok"
                                /\ FourElementStack(
                                       f.psbt[1].inputs[1].final_script_witness[1])
                                /\ f.tx[1].input[1].witness =
                                       f.psbt[1].inputs[1].final_script_witness[1]
    /\ (/\ FinalizerRan
        /\ origin = "assembler"
        /\ Cardinality(LoadedInputs[1].partial_sigs) = 2)
           => /\ run.ok
              /\ FourElementStack(FinalWitness(1))

\* cosigner a has signed the coordinator's unsigned PSBT
C14_Witness ==
    /\ SignerWrote
    /\ origin = "assembler"
    /\ run.key \in KeygenFiles
    /\ run.key.xprv = "a"
    /\ SigsBefore(1) = {}
    /\ Cardinality(SigsAfter(1)) = 1

\* C15: where cosigner B's signer run has written its PSBT, for every
\* cosigner A the two orders agree: A's run on B's output (B then A) and B's
\* run on the output of A's run on the PSBT B loaded (A then B) end alike,
\* and where they end well they hold the same PSBT, so the same partial_sigs
\* on every input, and the finalizer gives the same witness stacks and the
\* same transaction for both
C15_SignerOrderIrrelevant ==
    (SignerWrote /\ run.key \in KeygenFiles) =>
        \A ka \in KeygenFiles :
            LET b_then_a == SignPsbt(ka, LoadPsbt(file[1]))
                a_first == SignPsbt(ka, run.loaded[1])
                a_then_b == SignPsbt(run.key, a_first.psbt)
            IN  /\ a_first.ok = b_then_a.ok
                /\ (a_first.ok /\ a_then_b.ok) =>
                       /\ \A i \in 1..Len(LoadedInputs) :
                              a_then_b.psbt.inputs[i].partial_sigs
                                  = b_then_a.psbt.inputs[i].partial_sigs
                       /\ a_then_b.psbt = b_then_a.psbt
                       /\ FinalizerRun(a_then_b.psbt).psbt
                              = FinalizerRun(b_then_a.psbt).psbt
                       /\ FinalizerRun(a_then_b.psbt).tx
                              = FinalizerRun(b_then_a.psbt).tx

\* cosigner a has signed the coordinator's PSBT after cosigner b had
C15_Witness ==
    /\ SignerWrote
    /\ origin = "assembler"
    /\ run.key \in KeygenFiles
    /\ run.key.xprv = "a"
    /\ { e.sig.xprv : e \in SigsBefore(1) } = {"b"}
    /\ { e.sig.xprv : e \in SigsAfter(1) } = {"a", "b"}

\* C16: a signer run that directly follows a written signer run with the same
\* key record ends well and writes the PSBT it loaded: the same partial_sigs
\* on every input and the same number of inputs signed; the entries under
\* the signer's key are the signatures the deterministic nonce gives, so a
\* further run reproduces them; an input that held no signature before the
\* first of the two runs holds at most 1 after the second
C16_ResigningIdempotent ==
    [][ (SignerWrote /\ run'.tool = "signer" /\ run'.key = run.key) =>
            /\ run'.ok
            /\ file' = file
            /\ run'.signed_count = run.signed_count
            /\ \A i \in 1..Len(LoadedInputs) :
                   LET after == LoadPsbt(file'[1]).inputs[i].partial_sigs
                   IN  /\ after = SigsAfter(i)
                       /\ \A e \in after :
                              (after # SigsBefore(i) /\ e.sig.xprv = run.key.xprv
                                   /\ e \notin SigsBefore(i))
                                  => e.sig.rfc6979
                       /\ SigsBefore(i) = {} => Cardinality(after) <= 1 ]_vars

\* cosigner a has signed the coordinator's unsigned PSBT twice in a row
C16_Witness ==
    /\ SignerWrote
    /\ origin = "assembler"
    /\ run.key \in KeygenFiles
    /\ run.key.xprv = "a"
    /\ run.signed_count = 1
    /\ SigsBefore(1) = SigsAfter(1)
    /\ { e.sig.xprv : e \in SigsAfter(1) } = {"a"}

\* from_key_files has been called on key_files
WalletLoaded == run.tool = "from_key_files"

\* C17: from_key_files returns a wallet exactly where it is handed 3 key
\* files; the wallet has threshold 2, within 1..N, and one origin per key
\* file, N = 3; handed any other number it returns the error and no wallet
C17_ThreeKeyFilesThresholdTwo ==
    WalletLoaded =>
        /\ run.ok <=> Len(key_files) = 3
        /\ run.ok <=> multisig_wallet # None
        /\ run.ok =>
               /\ multisig_wallet[1].threshold = 2
               /\ Len(multisig_wallet[1].xpub_origins) = 3
               /\ 1 <= multisig_wallet[1].threshold
               /\ multisig_wallet[1].threshold <= Len(multisig_wallet[1].xpub_origins)
               /\ multisig_wallet[1].descriptor.k = 2
               /\ Len(multisig_wallet[1].descriptor.xpubs) = 3
        /\ ~run.ok => run.err = "Expected exactly 3 key files"

\* from_key_files has been called on the 3 key files keygen wrote and has
\* returned a wallet
C17_Witness ==
    /\ WalletLoaded
    /\ key_files = CoordinatorKeyFiles
    /\ run.ok
    /\ multisig_wallet # None
    /\ multisig_wallet[1].threshold = 2

\* C18: in every wallet from_key_files returns, the origins' master
\* fingerprints are pairwise different
C18_FingerprintsDistinct ==
    (WalletLoaded /\ multisig_wallet # None) =>
        \A i, j \in 1..Len(multisig_wallet[1].xpub_origins) :
            i # j => multisig_wallet[1].xpub_origins[i].fingerprint
                         # multisig_wallet[1].xpub_origins[j].fingerprint

\* the public key is one of the keys of loaded input i's witness script
InWitnessScript(pk, i) ==
    /\ LoadedInputs[i].witness_script # None
    /\ \E k \in 1..Len(LoadedInputs[i].witness_script[1].keys) :
           LoadedInputs[i].witness_script[1].keys[k] = pk.inner

\* the partial_sigs entry of loaded input i verifies: the signature is over
\* the input's digest, made with the private key of the entry's public key,
\* and that key is in the witness script
ValidEntry(e, i) ==
    /\ InWitnessScript(e.pk, i)
    /\ LoadedInputs[i].witness_utxo # None
    /\ e.sig.digest = P2wshSignatureHash(run.loaded[1].unsigned_tx, i - 1,
                          LoadedInputs[i].witness_script[1],
                          LoadedInputs[i].witness_utxo[1].value)
    /\ ChildPub(e.sig.xprv, e.sig.child) = e.pk.inner

\* C19: the finalizer verifies the signatures: a run passes the signature
\* count only where every input holds at least 2 entries that verify, and
\* every signature of a final witness is that of an entry that verifies
C19_FinalizerVerifiesSignatures ==
    /\ (FinalizerRan /\ run.err # "insufficient") =>
           \A i \in 1..Len(LoadedInputs) :
               Cardinality({ e \in LoadedInputs[i].partial_sigs : ValidEntry(e, i) }) >= 2
    /\ Finalized =>
           \A i \in 1..Len(LoadedInputs) :
               \A j \in 2..(Len(FinalWitness(i)) - 1) :
                   \E e \in LoadedInputs[i].partial_sigs :
                       /\ FinalWitness(i)[j] = SigElement(e.sig)
                       /\ ValidEntry(e, i)

\* the position of a public key among the keys of loaded input i's script
ScriptPosition(pk, i) ==
    CHOOSE k \in 1..Len(LoadedInputs[i].witness_script[1].keys) :
        LoadedInputs[i].witness_script[1].keys[k] = pk.inner

\* C20: in every finalized input the signatures of the final witness are
\* those of partial_sigs entries whose public keys are keys of the input's
\* witness script, in the order in which these keys stand in the script
C20_WitnessFollowsScriptKeys ==
    Finalized =>
        \A i \in 1..Len(LoadedInputs) :
            LET w == FinalWitness(i)
            IN  /\ \A j \in 2..(Len(w) - 1) :
                       \E e \in LoadedInputs[i].partial_sigs :
                           w[j] = SigElement(e.sig) /\ InWitnessScript(e.pk, i)
                /\ \A j1, j2 \in 2..(Len(w) - 1) :
                       j1 < j2 =>
                           \E e1, e2 \in LoadedInputs[i].partial_sigs :
                               /\ e1 # e2
                               /\ w[j1] = SigElement(e1.sig)
                               /\ w[j2] = SigElement(e2.sig)
                               /\ InWitnessScript(e1.pk, i)
                               /\ InWitnessScript(e2.pk, i)
                               /\ ScriptPosition(e1.pk, i) < ScriptPosition(e2.pk, i)

\* the last run derived the witness script and address at an index
Derived == run.tool = "derive_address"

\* the orders in which n key files can be supplied
Orders(n) == { p \in [1..n -> 1..n] : \A i, j \in 1..n : i # j => p[i] # p[j] }

\* C21: the witness script derived at an index lists the 3 child public keys
\* of the wallet's origins at that index in strictly ascending order; a
\* second call gives the same witness script and address, and so does the
\* wallet built from the same key files supplied in any other order
C21_SortedAndOrderIndependent ==
    Derived =>
        LET d == run.mem[1]
            keys == d.witness_script.keys
            origins == multisig_wallet[1].xpub_origins
        IN  /\ Len(keys) = 3
            /\ { keys[k] : k \in 1..Len(keys) }
                   = { DeriveChildPubkey(origins[k], d.index) : k \in 1..Len(origins) }
            /\ \A k \in 1..(Len(keys) - 1) : keys[k] < keys[k + 1]
            /\ d.address = ScriptPubkey(d.witness_script)
            /\ WitnessScript(multisig_wallet[1], d.index) = d.witness_script
            /\ DeriveAddress(multisig_wallet[1], d.index) = d.address
            /\ \A p \in Orders(Len(key_files)) :
                   LET other == FromKeyFiles([i \in 1..Len(key_files) |-> key_files[p[i]]])
                   IN  /\ other # None
                       /\ WitnessScript(other[1], d.index) = d.witness_script
                       /\ DeriveAddress(other[1], d.index) = d.address

\* the script was derived at the change index for the key files a, b, c: its
\* keys stand neither in the order of the key files nor in the order of the
\* origins' keys at the receive index
C21_Witness ==
    /\ Derived
    /\ key_files = CoordinatorKeyFiles
    /\ run.mem[1].index = ChangeIndex
    /\ run.mem[1].witness_script.keys
           = << ChildPub("c", "1"), ChildPub("a", "1"), ChildPub("b", "1") >>
    /\ WitnessScript(multisig_wallet[1], ReceiveIndex).keys
           = << ChildPub("b", "0"), ChildPub("a", "0"), ChildPub("c", "0") >>

\* the last run was a coordinator run
CoordinatorRan == run.tool = "coordinator"

\* C22: a coordinator run whose send amount plus fee exceeds the spent value
\* ends with an error and produces no PSBT, neither in memory nor in a file;
\* every other run succeeds, and then the send output carries the send
\* amount, the change output the spent value minus send amount minus fee,
\* never negative, and the two outputs plus the fee sum to the spent value;
\* for the coordinator's own amounts the outputs are 50,000,000 and
\* 49,999,000
C22_ChangeNeverUnderflows ==
    CoordinatorRan =>
        /\ amounts.send_amount + amounts.fee > amounts.utxo_value =>
               /\ ~run.ok
               /\ run.psbt = None
               /\ file = None
        /\ amounts.send_amount + amounts.fee <= amounts.utxo_value => run.ok
        /\ run.ok =>
               LET tx == run.psbt[1].unsigned_tx
               IN  /\ file = FileOf(run.psbt[1])
                   /\ Len(tx.output) = 2
                   /\ tx.output[1].value = amounts.send_amount
                   /\ tx.output[2].value >= 0
                   /\ tx.output[1].value + tx.output[2].value + amounts.fee
                          = amounts.utxo_value
                   /\ run.psbt[1].inputs[1].witness_utxo[1].value = amounts.utxo_value
                   /\ amounts = CoordinatorAmounts =>
                          /\ tx.output[1].value = 50000000
                          /\ tx.output[2].value = 49999000

\* the coordinator ran with a send amount that fits the spent value alone
\* but not together with the fee, and built nothing
C22_Witness ==
    /\ CoordinatorRan
    /\ amounts.send_amount <= amounts.utxo_value
    /\ amounts.send_amount + amounts.fee > amounts.utxo_value
    /\ ~run.ok
    /\ file = None

\* loaded input i names another key under the signer's fingerprint: the first
\* entry of its bip32_derivation with the key record's fingerprint string
\* holds a key other than the child key the signer derives
NamesOtherKey(i) ==
    \E e \in LoadedInputs[i].bip32_derivation :
        /\ FingerprintToString(e.fingerprint) = run.key.fingerprint
        /\ \A o \in LoadedInputs[i].bip32_derivation :
               FingerprintToString(o.fingerprint) = run.key.fingerprint => e.pk <= o.pk
        /\ e.path # <<>>
        /\ e.pk # ChildPub(run.key.xprv, e.path[Len(e.path)])

\* loaded input i names the signer's key and lacks a field the signer needs
LacksField(i) ==
    /\ NamesSignerKey(i)
    /\ \/ LoadedInputs[i].witness_script = None
       \/ LoadedInputs[i].witness_utxo = None

\* C23: a signer run leaves every input that names another key under the
\* signer's fingerprint as loaded, whether or not the input has its
\* witness_script and witness_utxo; such an input never makes the run fail:
\* the run fails only where some input names the signer's own key and lacks
\* a field; and every later input that names the signer's key and has its
\* fields holds the signer's signature unless an input before it failed
C23_MismatchSkipsInput ==
    run.tool = "signer" =>
        /\ run.ok <=> ~\E k \in 1..Len(LoadedInputs) : LacksField(k)
        /\ \A i \in 1..Len(LoadedInputs) :
               NamesOtherKey(i) =>
                   /\ HeldInputs[i] = LoadedInputs[i]
                   /\ \A j \in (i + 1)..Len(LoadedInputs) :
                          (/\ NamesSignerKey(j)
                           /\ ~\E k \in 1..j : LacksField(k))
                              => \E e \in HeldInputs[j].partial_sigs :
                                     /\ e.pk.inner = ChildPub(run.key.xprv,
                                                         IndexToString(ReceiveIndex))
                                     /\ e.sig.xprv = run.key.xprv
                                     /\ e.sig.rfc6979

\* a signer run skipped a first input that names another key and has no
\* witness script, signed the second input and wrote the PSBT
C23_Witness ==
    /\ SignerWrote
    /\ Len(LoadedInputs) = 2
    /\ NamesOtherKey(1)
    /\ LoadedInputs[1].witness_script = None
    /\ HeldInputs[1] = LoadedInputs[1]
    /\ NamesSignerKey(2)
    /\ HeldInputs[2].partial_sigs # LoadedInputs[2].partial_sigs
    /\ run.signed_count = 1

\* loaded input i holds, under the fingerprint the signer's key record gives
\* in hex letters of either case, the child key the signer derives
NamesSignerKeyAsBytes(i) ==
    \E e \in LoadedInputs[i].bip32_derivation :
        /\ e.fingerprint = FingerprintFromStr(run.key.fingerprint)
        /\ e.path # <<>>
        /\ e.pk = ChildPub(run.key.xprv, e.path[Len(e.path)])

\* C24: a signer run finds the bip32_derivation entry whose fingerprint
\* equals, as 4 bytes, the fingerprint of its key record, whatever the case
\* of the record's hex letters: on a PSBT the coordinator built, an input
\* that holds the signer's key under that fingerprint holds the signer's
\* signature after the run
C24_FingerprintMatchedAsBytes ==
    (run.tool = "signer" /\ origin = "assembler") =>
        \A i \in 1..Len(LoadedInputs) :
            NamesSignerKeyAsBytes(i) =>
                /\ run.ok
                /\ run.signed_count >= 1
                /\ \E e \in HeldInputs[i].partial_sigs :
                       /\ e.pk.inner = ChildPub(run.key.xprv, IndexToString(ReceiveIndex))
                       /\ e.sig.xprv = run.key.xprv

\* C25: where a signer run reports the threshold reached and the PSBT ready
\* to finalize, every input of the PSBT it wrote holds at least 2 partial
\* signatures, and the finalizer's signature check finds no input short
C25_ThresholdReportMeansFinalizable ==
    (run.tool = "signer" /\ run.threshold_reached) =>
        /\ \A i \in 1..Len(HeldInputs) :
               Cardinality(LoadPsbt(file[1]).inputs[i].partial_sigs) >= 2
        /\ InsufficientInputs(LoadPsbt(file[1])) = {}
        /\ FinalizerRun(LoadPsbt(file[1])).status # "insufficient"

\* C26: the input of a PSBT the coordinator built, also after signer runs,
\* is consistent: the public keys of its bip32_derivation are exactly the
\* keys of its witness_script, the witness script is the wallet's at the
\* receive index, the script of its witness_utxo is the P2WSH program of
\* that witness script, and every partial_sigs entry is under a key of the
\* witness script
C26_AssemblerMetadataConsistent ==
    (origin = "assembler" /\ file # None) =>
        LET input == LoadPsbt(file[1]).inputs[1]
            script == input.witness_script[1]
            script_keys == { script.keys[k] : k \in 1..Len(script.keys) }
        IN  /\ { e.pk : e \in input.bip32_derivation } = script_keys
            /\ Cardinality(script_keys) = 3
            /\ script = WitnessScript(CoordinatorWallet, ReceiveIndex)
            /\ input.witness_utxo[1].script_pubkey = ScriptPubkey(script)
            /\ \A e \in input.partial_sigs : e.pk.inner \in script_keys

\* cosigner b has signed the coordinator's unsigned PSBT
C26_Witness ==
    /\ SignerWrote
    /\ origin = "assembler"
    /\ run.key.xprv = "b"
    /\ SigsBefore(1) = {}
    /\ { e.pk.inner : e \in SigsAfter(1) } = { ChildPub("b", "0") }

====
